---- MODULE Spec2Model ----
(***************************************************************************)
(* Loan accounting engine of src/app.py: interest accrual over missed due  *)
(* dates, the payment waterfall (interest first, then principal) and the   *)
(* status derivation.  Money is counted in whole cents.  A calendar date   *)
(* (y, m, d) is the integer ((y - BaseYear) * 12 + (m - 1)) * 31 + (d - 1),*)
(* so that the order of the integers is the order of the dates (and of     *)
(* their ISO strings).  The ledger store is the single signed-in owner's   *)
(* view of the three tables; a row inserted without a user_id column gets  *)
(* the session's owner key from the store.  The columns loan_date,         *)
(* added_date and payment_date are written once and read by no operation   *)
(* of the engine; the rows leave them out.                                 *)
(*                                                                         *)
(* Spec        the page handlers, every storage call succeeding            *)
(* SpecForm    the Payments page with the submits its form refuses         *)
(* SpecAdvance successive one-month advances of one due date               *)
(* SpecFail    payments and page loads during which a storage call raises  *)
(* SpecRetry   page loads whose accrual pass is interrupted                *)
(* SpecDelete  a delete taken one storage call at a time, among two loans  *)
(* SpecOwners  two owners' sessions on one store                           *)
(* SpecRace    two payments on one loan, their storage calls interleaved   *)
(***************************************************************************)
EXTENDS Integers, Sequences, FiniteSets, TLC

(* ------------------------------ bounds -------------------------------- *)
BaseYear == 2024
MaxLoans == 1
MaxOps == 2
LastMonth == 3
MaxAdvances == 12
MaxFaults == 1

(* -------------------------- program constants -------------------------- *)
RatePercent == 40

VARIABLES today, loans, interest, payments, nextId, edits, lastOp,
          advStart, advDate, advCount, faults, deleting, caller, owner, race,
          form

vars == <<today, loans, interest, payments, nextId, edits, lastOp,
          advStart, advDate, advCount, faults, deleting, caller, owner,
          race, form>>

ledgerVars == <<today, loans, interest, payments, nextId, edits, lastOp>>
advVars == <<advStart, advDate, advCount>>
(* faults: storage calls that failed so far; deleting: the loan whose    *)
(* delete_loan_with_related_data is under way and the calls it has made  *)
stepVars == <<faults, deleting>>

(* caller: the owner key of the signed-in session; owner: the user_id   *)
(* column of each loan row; race: the local variables of the             *)
(* process_payment calls that are under way in two sessions              *)
sessionVars == <<caller, owner, race, form>>

(* the sessions that submit payments at the same time *)
Racers == {1, 2}

(* the locals of a process_payment call that has not started *)
IdleCall ==
    [pc |-> "idle", loan |-> 0, amount |-> 0, principal |-> 0,
     snap |-> << >>, todo |-> {}, remaining |-> 0, applied |-> 0]

(* no payment is under way *)
NoRace ==
    [call |-> [p \in Racers |-> IdleCall],
     base |-> [loans |-> << >>, interest |-> << >>, payments |-> << >>]]

(* no delete is under way *)
NoDelete == [loan |-> 0, calls |-> 0]

(* form: what the last submit of the Payments form held *)
NoForm == [loan |-> 0, amount |-> 0, pay_date |-> 0]

(* ------------------------------- dates --------------------------------- *)
MkDate(y, m, d) == ((y - BaseYear) * 12 + (m - 1)) * 31 + (d - 1)
YearOf(n) == BaseYear + (n \div 372)
MonthOf(n) == ((n \div 31) % 12) + 1
DayOf(n) == (n % 31) + 1

IsLeap(y) == (y % 4 = 0) /\ ((y % 100 # 0) \/ (y % 400 = 0))

DaysInMonth(y, m) ==
    IF m = 2 THEN (IF IsLeap(y) THEN 29 ELSE 28)
    ELSE IF m \in {4, 6, 9, 11} THEN 30 ELSE 31

Min(a, b) == IF a <= b THEN a ELSE b
Max(a, b) == IF a >= b THEN a ELSE b

(* date + relativedelta(months=1): the next month, the day clamped to it *)
get_next_due_date(n) ==
    LET y == IF MonthOf(n) = 12 THEN YearOf(n) + 1 ELSE YearOf(n)
        m == IF MonthOf(n) = 12 THEN 1 ELSE MonthOf(n) + 1
    IN  MkDate(y, m, Min(DayOf(n), DaysInMonth(y, m)))

(* round(principal * INTEREST_RATE, 2) on cents; principal * 40 / 100 has  *)
(* a fractional part in {0, .2, .4, .6, .8}, so no tie is ever rounded     *)
calculate_interest(p) == (2 * p * RatePercent + 100) \div 200

(* ------------------------------ inputs --------------------------------- *)
(* ids the store can hand out: one more than the loans any page session  *)
(* but the one that watches a delete creates                             *)
LoanIds == 1..(MaxLoans + 1)
ClockDays == {15}
DueDays == {15, 31}
Principals == {50000}
EditPrincipals == {0, 20003}
PayAmounts == {10000, 30000, 60000}
(* what the amount field accepts: min_value = 0.0 *)
AmountInputs == PayAmounts \cup {0}

StartDate == MkDate(BaseYear, 1, 1)

ClockDates ==
    {MkDate(BaseYear, m, d) : m \in 1..LastMonth, d \in ClockDays}

DueMonths == {1}

DueDates ==
    {n \in {MkDate(BaseYear, m, d) : m \in DueMonths, d \in DueDays} :
        DayOf(n) <= DaysInMonth(YearOf(n), MonthOf(n))}

(* ------------------------- ledger store rows --------------------------- *)
(* variant: the row is inserted without its principal_at_time column *)
NewEntry_NoSnapshot(due, principal) ==
    [due_date |-> due,
     interest_amount |-> calculate_interest(principal),
     principal_at_time |-> 0,
     is_paid |-> 0]

(* the row inserted into loan_interest_history *)
NewEntry(due, principal) ==
    [due_date |-> due,
     interest_amount |-> calculate_interest(principal),
     principal_at_time |-> principal,
     is_paid |-> 0]

EntriesFor(es, due) == {i \in DOMAIN es : es[i].due_date = due}

(* rows with is_paid = 0 and interest_amount > 0 *)
UnpaidIdx(es) ==
    {i \in DOMAIN es : es[i].is_paid = 0 /\ es[i].interest_amount > 0}

RECURSIVE SumAmounts(_, _)
SumAmounts(es, idx) ==
    IF idx = {} THEN 0
    ELSE LET i == CHOOSE x \in idx : TRUE
         IN  es[i].interest_amount + SumAmounts(es, idx \ {i})

UnpaidInterest(es) == SumAmounts(es, UnpaidIdx(es))

(* returns total_owed; a loan that is not found gives 0 *)
calculate_total_owed(L, I, l) ==
    IF l \notin DOMAIN L THEN 0
    ELSE L[l].current_principal + UnpaidInterest(I[l])

(* ----------------------------- accrual --------------------------------- *)
(* variant: one due date is handled per pass instead of all missed ones *)
AccrueWalk_OneMonth(es, due, principal, t) ==
    IF t > due
    THEN [entries |-> IF EntriesFor(es, due) = {}
                      THEN Append(es, NewEntry(due, principal))
                      ELSE es,
          due |-> get_next_due_date(due)]
    ELSE [entries |-> es, due |-> due]

(* variant: the walk inserts without looking for an existing row *)
RECURSIVE AccrueWalk_NoLookup(_, _, _, _)
AccrueWalk_NoLookup(es, due, principal, t) ==
    IF t > due
    THEN AccrueWalk_NoLookup(Append(es, NewEntry(due, principal)),
                             get_next_due_date(due), principal, t)
    ELSE [entries |-> es, due |-> due]

(* the while loop of check_and_add_overdue_interest for one loan *)
RECURSIVE AccrueWalk(_, _, _, _)
AccrueWalk(es, due, principal, t) ==
    IF t > due
    THEN AccrueWalk(IF EntriesFor(es, due) = {}
                    THEN Append(es, NewEntry(due, principal))
                    ELSE es,
                    get_next_due_date(due), principal, t)
    ELSE [entries |-> es, due |-> due]

(* variant: the pass walks every loan, the Paid ones too *)
check_and_add_overdue_interest_AllLoans(L, I, t) ==
    LET walk(l) == AccrueWalk(I[l], L[l].current_due_date,
                              L[l].current_principal, t)
    IN  [loans |-> [l \in DOMAIN L |->
                      [L[l] EXCEPT !.current_due_date = walk(l).due,
                                   !.status = "Overdue"]],
         interest |-> [l \in DOMAIN I |->
                      IF l \in DOMAIN L THEN walk(l).entries ELSE I[l]]]

(* the pass over the loans whose stored status is not Paid *)
check_and_add_overdue_interest(L, I, t) ==
    LET active == {l \in DOMAIN L : L[l].status # "Paid"}
        walk(l) == AccrueWalk(I[l], L[l].current_due_date,
                              L[l].current_principal, t)
    IN  [loans |-> [l \in DOMAIN L |->
                      IF l \in active
                      THEN [L[l] EXCEPT !.current_due_date = walk(l).due,
                                        !.status = "Overdue"]
                      ELSE L[l]],
         interest |-> [l \in DOMAIN I |->
                      IF l \in active THEN walk(l).entries ELSE I[l]]]

(* -------------------------- status resolver ---------------------------- *)
(* variant: a loan due today already counts as overdue *)
ResolveStatus_DueToday(L, I, l, t) ==
    IF calculate_total_owed(L, I, l) <= 0 THEN "Paid"
    ELSE IF t >= L[l].current_due_date THEN "Overdue"
    ELSE "Partial"

ResolveStatus(L, I, l, t) ==
    IF calculate_total_owed(L, I, l) <= 0 THEN "Paid"
    ELSE IF t > L[l].current_due_date THEN "Overdue"
    ELSE "Partial"

(* variant: the statuses are derived from the loan rows read before accrual *)
update_loan_statuses_StaleRows(L, I, t) ==
    LET a == check_and_add_overdue_interest(L, I, t)
    IN  [loans |-> [l \in DOMAIN a.loans |->
                      [a.loans[l] EXCEPT
                         !.status = ResolveStatus(L, a.interest, l, t)]],
         interest |-> a.interest]

update_loan_statuses(L, I, t) ==
    LET a == check_and_add_overdue_interest(L, I, t)
    IN  [loans |-> [l \in DOMAIN a.loans |->
                      [a.loans[l] EXCEPT
                         !.status = ResolveStatus(a.loans, a.interest, l, t)]],
         interest |-> a.interest]

(* --------------------------- payment waterfall ------------------------- *)
(* variant: the rows come back latest due date first *)
FirstDue_Descending(es, idx) ==
    CHOOSE i \in idx : \A j \in idx :
        \/ es[i].due_date > es[j].due_date
        \/ (es[i].due_date = es[j].due_date /\ i <= j)

(* the unpaid row that ORDER BY due_date returns first *)
FirstDue(es, idx) ==
    CHOOSE i \in idx : \A j \in idx :
        \/ es[i].due_date < es[j].due_date
        \/ (es[i].due_date = es[j].due_date /\ i <= j)

(* variant: a partial settlement does not use up the payment *)
RECURSIVE PayInterest_KeepRemaining(_, _, _, _)
PayInterest_KeepRemaining(es, idx, remaining, applied) ==
    IF idx = {} \/ remaining <= 0
    THEN [entries |-> es, remaining |-> remaining, applied |-> applied]
    ELSE LET i == FirstDue(es, idx)
             amt == es[i].interest_amount
         IN  IF remaining >= amt
             THEN PayInterest_KeepRemaining([es EXCEPT ![i].is_paid = 1],
                              idx \ {i}, remaining - amt, applied + amt)
             ELSE PayInterest_KeepRemaining(
                              [es EXCEPT ![i].interest_amount = amt - remaining],
                              idx \ {i}, remaining, applied + remaining)

(* the loop over interest_data.data *)
RECURSIVE PayInterest(_, _, _, _)
PayInterest(es, idx, remaining, applied) ==
    IF idx = {} \/ remaining <= 0
    THEN [entries |-> es, remaining |-> remaining, applied |-> applied]
    ELSE LET i == FirstDue(es, idx)
             amt == es[i].interest_amount
         IN  IF remaining >= amt
             THEN PayInterest([es EXCEPT ![i].is_paid = 1], idx \ {i},
                              remaining - amt, applied + amt)
             ELSE PayInterest([es EXCEPT ![i].interest_amount = amt - remaining],
                              idx \ {i}, 0, applied + remaining)

(* variant: the subtraction without the floor *)
NewPrincipal_NoFloor(current_principal, applied) == current_principal - applied

(* new_principal = max(round(current_principal - applied_to_principal, 2), 0) *)
NewPrincipal(current_principal, applied) == Max(current_principal - applied, 0)

(* variant: the status is decided from the total owed before the writes *)
process_payment_StatusFirst(L, I, P, l, amount, pay_date) ==
    LET w == PayInterest(I[l], UnpaidIdx(I[l]), amount, 0)
        toPrincipal == IF w.remaining > 0 THEN w.remaining ELSE 0
        L1 == IF w.remaining > 0
              THEN [L EXCEPT ![l].current_principal =
                        NewPrincipal(L[l].current_principal, toPrincipal)]
              ELSE L
        I1 == [I EXCEPT ![l] = w.entries]
        row == [amount |-> amount,
                applied_to_interest |-> w.applied,
                applied_to_principal |-> toPrincipal,
                remaining_amount |-> w.remaining]
        status == IF calculate_total_owed(L, I, l) <= 0
                  THEN "Paid" ELSE "Active"
    IN  [loans |-> [L1 EXCEPT ![l].status = status],
         interest |-> I1,
         payments |-> [P EXCEPT ![l] = Append(P[l], row)]]

(* pay_date is only stored (payment_date), see the module header *)
process_payment(L, I, P, l, amount, pay_date) ==
    LET w == PayInterest(I[l], UnpaidIdx(I[l]), amount, 0)
        toPrincipal == IF w.remaining > 0 THEN w.remaining ELSE 0
        L1 == IF w.remaining > 0
              THEN [L EXCEPT ![l].current_principal =
                        NewPrincipal(L[l].current_principal, toPrincipal)]
              ELSE L
        I1 == [I EXCEPT ![l] = w.entries]
        row == [amount |-> amount,
                applied_to_interest |-> w.applied,
                applied_to_principal |-> toPrincipal,
                remaining_amount |-> w.remaining]
        status == IF calculate_total_owed(L1, I1, l) <= 0
                  THEN "Paid" ELSE "Active"
    IN  [loans |-> [L1 EXCEPT ![l].status = status],
         interest |-> I1,
         payments |-> [P EXCEPT ![l] = Append(P[l], row)]]

(* ------------------------------ edit / delete -------------------------- *)
(* the writes of update_loan that come before its update_loan_statuses() *)
update_loan_writes(L, I, l, new_principal, new_due_date) ==
    LET L1 == [L EXCEPT ![l].current_principal = new_principal,
                        ![l].original_principal = new_principal,
                        ![l].current_due_date = new_due_date,
                        ![l].original_due_date = new_due_date]
        ex == EntriesFor(I[l], new_due_date)
        first == CHOOSE i \in ex : \A j \in ex : i <= j
        es == IF ex # {}
              THEN [I[l] EXCEPT
                      ![first].interest_amount = calculate_interest(new_principal),
                      ![first].principal_at_time = new_principal]
              ELSE Append(I[l], NewEntry(new_due_date, new_principal))
    IN  [loans |-> L1, interest |-> [I EXCEPT ![l] = es]]

update_loan(L, I, l, new_principal, new_due_date, t) ==
    LET w == update_loan_writes(L, I, l, new_principal, new_due_date)
    IN  update_loan_statuses(w.loans, w.interest, t)

(* --------------------------- the state machine ------------------------- *)
RECURSIVE PaymentCount(_, _)
PaymentCount(P, ids) ==
    IF ids = {} THEN 0
    ELSE LET l == CHOOSE x \in ids : TRUE
         IN  Len(P[l]) + PaymentCount(P, ids \ {l})

Init ==
    /\ today = StartDate
    /\ loans = << >>
    /\ interest = [l \in LoanIds |-> << >>]
    /\ payments = [l \in LoanIds |-> << >>]
    /\ nextId = 1
    /\ edits = 0
    /\ lastOp = "init"
    /\ advStart = 0
    /\ advDate = 0
    /\ advCount = 0
    /\ faults = 0
    /\ deleting = NoDelete
    /\ caller = "A"
    /\ owner = [l \in LoanIds |-> "A"]
    /\ race = NoRace
    /\ form = NoForm

(* the clock moves forward *)
Tick ==
    /\ \E d \in ClockDates :
         /\ d > today
         /\ \A e \in ClockDates : e > today => d <= e
         /\ today' = d
    /\ lastOp' = "tick"
    /\ UNCHANGED <<loans, interest, payments, nextId, edits, advVars, stepVars, sessionVars>>

(* Loans page, "Create loan": two inserts, then update_loan_statuses;   *)
(* n caps the number of loans created                                    *)
CreateLoanUpTo(n) ==
    /\ nextId <= n
    /\ \E principal \in Principals, due \in DueDates :
         /\ principal > 0
         /\ LET l == nextId
                row == [original_principal |-> principal,
                        current_principal |-> principal,
                        original_due_date |-> due,
                        current_due_date |-> due,
                        status |-> "Partial"]
                L1 == [x \in (DOMAIN loans) \cup {l} |->
                          IF x = l THEN row ELSE loans[x]]
                I1 == [interest EXCEPT
                          ![l] = Append(interest[l], NewEntry(due, principal))]
                r == update_loan_statuses(L1, I1, today)
            IN  /\ loans' = r.loans
                /\ interest' = r.interest
                /\ lastOp' = "create"
    /\ nextId' = nextId + 1
    /\ UNCHANGED <<today, payments, edits, advVars, stepVars, sessionVars>>

CreateLoan == CreateLoanUpTo(MaxLoans)

(* Loans page, "Update Loan" *)
EditLoan ==
    /\ edits + PaymentCount(payments, LoanIds) < MaxOps
    /\ edits' = edits + 1
    /\ \E l \in DOMAIN loans, p \in EditPrincipals, due \in DueDates :
         LET r == update_loan(loans, interest, l, p, due, today)
         IN  /\ loans' = r.loans
             /\ interest' = r.interest
             /\ lastOp' = "edit"
    /\ UNCHANGED <<today, payments, nextId, advVars, stepVars, sessionVars>>

(* variant: the check lets an amount of zero through *)
AmountRejected_OnlyNegative(amount) == amount < 0

(* Payments page: elif amount <= 0: st.error("Amount must be > 0") *)
AmountRejected(amount) == amount <= 0

(* variant: a payment dated on the due date itself is let through *)
MinimumPaymentRejected_AfterDue(L, I, l, amount, pay_date) ==
    /\ pay_date > L[l].current_due_date
    /\ amount < UnpaidInterest(I[l])

(* Payments page: if pay_date >= due_date and amount < unpaid_interest:   *)
(* st.error("Minimum payment required"), st.stop()                        *)
MinimumPaymentRejected(L, I, l, amount, pay_date) ==
    /\ pay_date >= L[l].current_due_date
    /\ amount < UnpaidInterest(I[l])

(* Payments page, "Record payment": the form's checks, then process_payment *)
RecordPaymentOf(l, amount, pay_date) ==
    /\ l \in DOMAIN loans
    /\ loans[l].status # "Paid"
    /\ edits + PaymentCount(payments, LoanIds) < MaxOps
    /\ ~AmountRejected(amount)
    /\ ~MinimumPaymentRejected(loans, interest, l, amount, pay_date)
    /\ LET r == process_payment(loans, interest, payments, l, amount, pay_date)
       IN  /\ loans' = r.loans
           /\ interest' = r.interest
           /\ payments' = r.payments
           /\ lastOp' = "pay"
    /\ UNCHANGED <<today, nextId, edits, caller, owner, race, advVars, stepVars>>

RecordPayment ==
    /\ \E l \in LoanIds, amount \in AmountInputs, pay_date \in {StartDate, today} :
         RecordPaymentOf(l, amount, pay_date)
    /\ UNCHANGED form

(* the same submit, with what the form held kept for inspection *)
RecordPaymentForm ==
    \E l \in LoanIds, amount \in AmountInputs, pay_date \in {StartDate, today} :
        /\ RecordPaymentOf(l, amount, pay_date)
        /\ form' = [loan |-> l, amount |-> amount, pay_date |-> pay_date]

(* Payments page, "Record payment" with an amount the form refuses: the  *)
(* error is shown (for the minimum payment, the script run is stopped)    *)
(* and process_payment is not called                                      *)
RecordPaymentRejected ==
    /\ \E l \in DOMAIN loans, amount \in AmountInputs, pay_date \in {StartDate, today} :
         /\ loans[l].status # "Paid"
         /\ \/ AmountRejected(amount)
            \/ MinimumPaymentRejected(loans, interest, l, amount, pay_date)
         /\ form' = [loan |-> l, amount |-> amount, pay_date |-> pay_date]
    /\ lastOp' = "rejected"
    /\ UNCHANGED <<today, loans, interest, payments, nextId, edits, caller,
                   owner, race, advVars, stepVars>>

(* a page load: update_loan_statuses *)
Refresh ==
    /\ LET r == update_loan_statuses(loans, interest, today)
       IN  /\ loans' = r.loans
           /\ interest' = r.interest
    /\ lastOp' = "refresh"
    /\ UNCHANGED <<today, payments, nextId, edits, advVars, stepVars, sessionVars>>

(* delete_loan_with_related_data: payments, interest rows, then the loan *)
DeleteLoan ==
    /\ \E l \in DOMAIN loans :
         /\ payments' = [payments EXCEPT ![l] = << >>]
         /\ interest' = [interest EXCEPT ![l] = << >>]
         /\ loans' = [x \in (DOMAIN loans) \ {l} |-> loans[x]]
         /\ lastOp' = "delete"
    /\ UNCHANGED <<today, nextId, edits, advVars, stepVars, sessionVars>>

Next ==
    \/ Tick
    \/ CreateLoan
    \/ EditLoan
    \/ RecordPayment
    \/ Refresh
    \/ DeleteLoan

Spec == Init /\ [][Next]_vars

(* the Payments page with the submits its form refuses *)
NextForm ==
    \/ Tick
    \/ CreateLoan
    \/ RecordPaymentForm
    \/ RecordPaymentRejected
    \/ Refresh

SpecForm == Init /\ [][NextForm]_vars

(* ------------- successive one-month advances of one due date ----------- *)
AdvanceYears == {BaseYear, BaseYear + 1}

AdvanceStarts ==
    {n \in {MkDate(y, m, d) : y \in AdvanceYears, m \in 1..12, d \in 1..31} :
        DayOf(n) <= DaysInMonth(YearOf(n), MonthOf(n))}

InitAdvance ==
    /\ today = StartDate
    /\ loans = << >>
    /\ interest = [l \in LoanIds |-> << >>]
    /\ payments = [l \in LoanIds |-> << >>]
    /\ nextId = 1
    /\ edits = 0
    /\ lastOp = "init"
    /\ advStart \in AdvanceStarts
    /\ advDate = advStart
    /\ advCount = 0
    /\ faults = 0
    /\ deleting = NoDelete
    /\ caller = "A"
    /\ owner = [l \in LoanIds |-> "A"]
    /\ race = NoRace
    /\ form = NoForm

(* one pass of the accrual loop's "move to next due date" *)
AdvanceDueDate ==
    /\ advCount < MaxAdvances
    /\ advDate' = get_next_due_date(advDate)
    /\ advCount' = advCount + 1
    /\ UNCHANGED <<advStart, ledgerVars, stepVars, sessionVars>>

NextAdvance == AdvanceDueDate

SpecAdvance == InitAdvance /\ [][NextAdvance]_vars

(* ---------------- storage calls that raise an exception ---------------- *)
(* the first k updates of the loop over interest_data.data *)
RECURSIVE PayInterestUpTo(_, _, _, _)
PayInterestUpTo(es, idx, remaining, k) ==
    IF idx = {} \/ remaining <= 0 \/ k = 0
    THEN es
    ELSE LET i == FirstDue(es, idx)
             amt == es[i].interest_amount
         IN  IF remaining >= amt
             THEN PayInterestUpTo([es EXCEPT ![i].is_paid = 1], idx \ {i},
                                  remaining - amt, k - 1)
             ELSE PayInterestUpTo([es EXCEPT ![i].interest_amount = amt - remaining],
                                  idx \ {i}, 0, k - 1)

(* the writes process_payment makes, in order: one update per interest    *)
(* entry it reaches, the principal update when money is left, the Payment *)
(* insert, the status update                                              *)
PaymentWrites(I, l, amount) ==
    LET w == PayInterest(I[l], UnpaidIdx(I[l]), amount, 0)
    IN  Cardinality({i \in DOMAIN I[l] : w.entries[i] # I[l][i]})
            + (IF w.remaining > 0 THEN 1 ELSE 0) + 2

(* process_payment when its (k+1)-th write raises: the first k writes     *)
(* stay in the store, the except clause returns (False, message)          *)
process_payment_failing(L, I, P, l, amount, pay_date, k) ==
    LET full == process_payment(L, I, P, l, amount, pay_date)
        n == PaymentWrites(I, l, amount)
    IN  [loans |-> IF k >= n - 2 /\ full.loans[l].current_principal # L[l].current_principal
                   THEN [L EXCEPT ![l].current_principal =
                                     full.loans[l].current_principal]
                   ELSE L,
         interest |-> [I EXCEPT ![l] =
                          PayInterestUpTo(I[l], UnpaidIdx(I[l]), amount, k)],
         payments |-> IF k >= n - 1 THEN full.payments ELSE P]

(* Payments page, "Record payment", with a storage call that fails *)
RecordPaymentFails ==
    /\ faults < MaxFaults
    /\ faults' = faults + 1
    /\ \E l \in DOMAIN loans, amount \in AmountInputs, pay_date \in {StartDate, today} :
         /\ loans[l].status # "Paid"
         /\ ~AmountRejected(amount)
         /\ ~(pay_date >= loans[l].current_due_date
              /\ amount < UnpaidInterest(interest[l]))
         /\ \E k \in 0..(PaymentWrites(interest, l, amount) - 1) :
              LET r == process_payment_failing(loans, interest, payments,
                                               l, amount, pay_date, k)
              IN  /\ loans' = r.loans
                  /\ interest' = r.interest
                  /\ payments' = r.payments
                  /\ lastOp' = "pay_failed"
    /\ UNCHANGED <<today, nextId, edits, advVars, deleting, sessionVars>>

(* update_loan_statuses when the reads of calculate_total_owed fail for   *)
(* the loans in F: its except clause returns 0, 0, 0 and total_owed <= 0 *)
(* selects "Paid"                                                        *)
update_loan_statuses_readfail(L, I, t, F) ==
    LET a == check_and_add_overdue_interest(L, I, t)
    IN  [loans |-> [l \in DOMAIN a.loans |->
                      [a.loans[l] EXCEPT
                         !.status = IF l \in F THEN "Paid"
                                    ELSE ResolveStatus(a.loans, a.interest, l, t)]],
         interest |-> a.interest]

(* a page load during which calculate_total_owed cannot read some loans *)
RefreshReadFails ==
    /\ faults < MaxFaults
    /\ faults' = faults + 1
    /\ \E F \in (SUBSET DOMAIN loans) \ {{}} :
         LET r == update_loan_statuses_readfail(loans, interest, today, F)
         IN  /\ loans' = r.loans
             /\ interest' = r.interest
    /\ lastOp' = "refresh_readfail"
    /\ UNCHANGED <<today, payments, nextId, edits, advVars, deleting, sessionVars>>

NextFail ==
    \/ Tick
    \/ CreateLoan
    \/ RecordPayment
    \/ Refresh
    \/ RecordPaymentFails
    \/ RefreshReadFails

SpecFail == Init /\ [][NextFail]_vars

(* ------------------ an accrual pass that is interrupted ---------------- *)
(* the while loop for one loan, stopped by an exception once k rows have  *)
(* been inserted: the rows stay, the loan's update is not reached         *)
RECURSIVE AccrueWalkUpTo(_, _, _, _, _)
AccrueWalkUpTo(es, due, principal, t, k) ==
    IF t > due
    THEN IF EntriesFor(es, due) = {}
         THEN IF k = 0 THEN es
              ELSE AccrueWalkUpTo(Append(es, NewEntry(due, principal)),
                                  get_next_due_date(due), principal, t, k - 1)
         ELSE AccrueWalkUpTo(es, get_next_due_date(due), principal, t, k)
    ELSE es

(* rows a complete walk would insert for loan l *)
MissedRows(L, I, l, t) ==
    Len(AccrueWalk(I[l], L[l].current_due_date, L[l].current_principal, t).entries)
        - Len(I[l])

(* check_and_add_overdue_interest when a storage call raises while loan x *)
(* is processed: the loans in done were completed before, x keeps k new   *)
(* rows, the loop ends and the function returns False                     *)
check_and_add_interrupted(L, I, t, done, x, k) ==
    LET a == check_and_add_overdue_interest(L, I, t)
    IN  [loans |-> [l \in DOMAIN L |-> IF l \in done THEN a.loans[l] ELSE L[l]],
         interest |-> [l \in DOMAIN I |->
                         IF l \in done THEN a.interest[l]
                         ELSE IF l = x
                         THEN AccrueWalkUpTo(I[l], L[l].current_due_date,
                                             L[l].current_principal, t, k)
                         ELSE I[l]]]

(* update_loan_statuses ignores the result of the accrual pass and goes   *)
(* on to its status loop                                                  *)
update_loan_statuses_interrupted(L, I, t, done, x, k) ==
    LET a == check_and_add_interrupted(L, I, t, done, x, k)
    IN  [loans |-> [l \in DOMAIN a.loans |->
                      [a.loans[l] EXCEPT
                         !.status = ResolveStatus(a.loans, a.interest, l, t)]],
         interest |-> a.interest]

(* a page load whose accrual pass is interrupted *)
RefreshInterrupted ==
    /\ faults < MaxFaults
    /\ faults + PaymentCount(payments, LoanIds) < MaxOps
    /\ faults' = faults + 1
    /\ \E x \in {l \in DOMAIN loans : loans[l].status # "Paid"} :
         \E done \in SUBSET ({l \in DOMAIN loans : loans[l].status # "Paid"} \ {x}) :
            \E k \in 0..MissedRows(loans, interest, x, today) :
               LET r == update_loan_statuses_interrupted(loans, interest, today,
                                                         done, x, k)
               IN  /\ loans' = r.loans
                   /\ interest' = r.interest
    /\ lastOp' = "refresh_interrupted"
    /\ UNCHANGED <<today, payments, nextId, edits, advVars, deleting, sessionVars>>

NextRetry ==
    \/ Tick
    \/ CreateLoan
    \/ RecordPayment
    \/ Refresh
    \/ RefreshInterrupted

SpecRetry == Init /\ [][NextRetry]_vars

(* ------------- delete_loan_with_related_data, call by call ------------- *)
(* variant: the loan row is deleted before its child rows *)
DeleteOrder_LoanFirst == <<"loans_new", "payments_new", "loan_interest_history">>

(* the tables delete_loan_with_related_data deletes from, in order *)
DeleteOrder == <<"payments_new", "loan_interest_history", "loans_new">>

(* .delete().eq("loan_id", l) on a child table, .delete().eq("id", l) on  *)
(* loans_new                                                              *)
delete_rows(L, I, P, l, table) ==
    [loans |-> IF table = "loans_new"
               THEN [x \in (DOMAIN L) \ {l} |-> L[x]] ELSE L,
     interest |-> IF table = "loan_interest_history"
                  THEN [I EXCEPT ![l] = << >>] ELSE I,
     payments |-> IF table = "payments_new"
                  THEN [P EXCEPT ![l] = << >>] ELSE P]

(* the next storage call of a delete: the first call picks the loan *)
DeleteStep ==
    /\ \E l \in (IF deleting.calls = 0 THEN DOMAIN loans ELSE {deleting.loan}) :
         LET n == deleting.calls
             r == delete_rows(loans, interest, payments, l, DeleteOrder[n + 1])
         IN  /\ loans' = r.loans
             /\ interest' = r.interest
             /\ payments' = r.payments
             /\ deleting' = IF n + 1 = Len(DeleteOrder) THEN NoDelete
                            ELSE [loan |-> l, calls |-> n + 1]
             /\ lastOp' = IF n + 1 = Len(DeleteOrder) THEN "delete"
                          ELSE "deleting"
    /\ UNCHANGED <<today, nextId, edits, advVars, faults, sessionVars>>

(* one page session: no other handler runs while a delete is under way *)
NextDelete ==
    \/ deleting.calls = 0 /\ Tick
    \/ deleting.calls = 0 /\ CreateLoanUpTo(MaxLoans + 1)
    \/ deleting.calls = 0 /\ RecordPayment
    \/ DeleteStep

SpecDelete == Init /\ [][NextDelete]_vars

(* --------------------------- two owners -------------------------------- *)
Owners == {"A", "B"}

(* update_loan_statuses in the session of owner who: the accrual pass and *)
(* the status loop select loans without a user_id filter, while           *)
(* calculate_total_owed reads the loan through get_table_data, which      *)
(* filters on the session's user_id: for another owner's loan it finds no *)
(* row and returns 0, 0, 0                                                *)
update_loan_statuses_as(L, I, t, own, who) ==
    update_loan_statuses_readfail(L, I, t, {l \in DOMAIN L : own[l] # who})

(* another owner signs in *)
SwitchCaller ==
    /\ \E o \in Owners \ {caller} : caller' = o
    /\ lastOp' = "signin"
    /\ UNCHANGED <<today, loans, interest, payments, nextId, edits, owner,
                   race, form, advVars, stepVars>>

(* Loans page, "Create loan": insert_table_data adds the session's user_id *)
CreateLoanAs ==
    /\ nextId <= MaxLoans + 1
    /\ \E principal \in Principals, due \in DueDates :
         /\ principal > 0
         /\ LET l == nextId
                row == [original_principal |-> principal,
                        current_principal |-> principal,
                        original_due_date |-> due,
                        current_due_date |-> due,
                        status |-> "Partial"]
                L1 == [x \in (DOMAIN loans) \cup {l} |->
                          IF x = l THEN row ELSE loans[x]]
                I1 == [interest EXCEPT
                          ![l] = Append(interest[l], NewEntry(due, principal))]
                own == [owner EXCEPT ![l] = caller]
                r == update_loan_statuses_as(L1, I1, today, own, caller)
            IN  /\ loans' = r.loans
                /\ interest' = r.interest
                /\ owner' = own
                /\ lastOp' = "create"
    /\ nextId' = nextId + 1
    /\ UNCHANGED <<today, payments, edits, caller, race, form, advVars,
                   stepVars>>

(* a page load in the caller's session *)
RefreshAs ==
    /\ LET r == update_loan_statuses_as(loans, interest, today, owner, caller)
       IN  /\ loans' = r.loans
           /\ interest' = r.interest
    /\ lastOp' = "refresh"
    /\ UNCHANGED <<today, payments, nextId, edits, advVars, stepVars, sessionVars>>

(* process_payment finds only the caller's own loans *)
RecordPaymentAs ==
    /\ RecordPayment
    /\ \A l \in LoanIds : payments'[l] # payments[l] => owner[l] = caller

NextOwners ==
    \/ Tick
    \/ SwitchCaller
    \/ CreateLoanAs
    \/ RefreshAs
    \/ RecordPaymentAs

SpecOwners == Init /\ [][NextOwners]_vars

(* ------------- two process_payment calls, storage call by call --------- *)
(* the loop over interest_data.data of call c has ended *)
LoopOver(c) == c.todo = {} \/ c.remaining <= 0

(* Payments page, "Record payment": the form's checks, then the two reads *)
(* of process_payment: the loan row and its unpaid interest rows          *)
RaceBegin(p) ==
    /\ race.call[p].pc = "idle"
    /\ \E l \in DOMAIN loans, amount \in AmountInputs, pay_date \in {StartDate, today} :
         /\ loans[l].status # "Paid"
         /\ ~AmountRejected(amount)
         /\ ~MinimumPaymentRejected(loans, interest, l, amount, pay_date)
         /\ race' =
              [call |-> [race.call EXCEPT ![p] =
                           [pc |-> "interest", loan |-> l, amount |-> amount,
                            principal |-> loans[l].current_principal,
                            snap |-> interest[l],
                            todo |-> UnpaidIdx(interest[l]),
                            remaining |-> amount, applied |-> 0]],
               base |-> IF \A q \in Racers : race.call[q].pc = "idle"
                        THEN [loans |-> loans, interest |-> interest,
                              payments |-> payments]
                        ELSE race.base]
    /\ lastOp' = "race"
    /\ UNCHANGED <<today, loans, interest, payments, nextId, edits, caller,
                   owner, form, advVars, stepVars>>

(* one pass of the loop: the update of the next unpaid row, computed from *)
(* the row as it was read                                                 *)
RaceEntry(p) ==
    LET c == race.call[p]
    IN  /\ c.pc = "interest"
        /\ ~LoopOver(c)
        /\ LET i == FirstDue(c.snap, c.todo)
               amt == c.snap[i].interest_amount
           IN  IF c.remaining >= amt
               THEN /\ interest' = [interest EXCEPT ![c.loan][i].is_paid = 1]
                    /\ race' = [race EXCEPT
                                  !.call[p].todo = c.todo \ {i},
                                  !.call[p].remaining = c.remaining - amt,
                                  !.call[p].applied = c.applied + amt]
               ELSE /\ interest' = [interest EXCEPT
                                      ![c.loan][i].interest_amount = amt - c.remaining]
                    /\ race' = [race EXCEPT
                                  !.call[p].todo = c.todo \ {i},
                                  !.call[p].remaining = 0,
                                  !.call[p].applied = c.applied + c.remaining]
        /\ lastOp' = "race"
        /\ UNCHANGED <<today, loans, payments, nextId, edits, caller, owner,
                       form, advVars, stepVars>>

(* the principal update, computed from the principal as it was read *)
RacePrincipal(p) ==
    LET c == race.call[p]
    IN  /\ c.pc = "interest"
        /\ LoopOver(c)
        /\ c.remaining > 0
        /\ loans' = [loans EXCEPT ![c.loan].current_principal =
                        NewPrincipal(c.principal, c.remaining)]
        /\ race' = [race EXCEPT !.call[p].pc = "insert"]
        /\ lastOp' = "race"
        /\ UNCHANGED <<today, interest, payments, nextId, edits, caller, owner,
                       form, advVars, stepVars>>

(* the insert into payments_new *)
RaceInsert(p) ==
    LET c == race.call[p]
    IN  /\ \/ c.pc = "insert"
           \/ (c.pc = "interest" /\ LoopOver(c) /\ c.remaining <= 0)
        /\ payments' = [payments EXCEPT ![c.loan] =
              Append(payments[c.loan],
                     [amount |-> c.amount,
                      applied_to_interest |-> c.applied,
                      applied_to_principal |->
                          IF c.remaining > 0 THEN c.remaining ELSE 0,
                      remaining_amount |-> c.remaining])]
        /\ race' = [race EXCEPT !.call[p].pc = "status"]
        /\ lastOp' = "race"
        /\ UNCHANGED <<today, loans, interest, nextId, edits, caller, owner,
                       form, advVars, stepVars>>

(* calculate_total_owed on the store as it is now, then the status update *)
RaceStatus(p) ==
    LET c == race.call[p]
    IN  /\ c.pc = "status"
        /\ loans' = [loans EXCEPT ![c.loan].status =
                        IF calculate_total_owed(loans, interest, c.loan) <= 0
                        THEN "Paid" ELSE "Active"]
        /\ race' = [race EXCEPT
                      !.call[p] = [IdleCall EXCEPT !.pc = "done",
                                                  !.loan = c.loan,
                                                  !.amount = c.amount]]
        /\ lastOp' = "race"
        /\ UNCHANGED <<today, interest, payments, nextId, edits, caller, owner,
                       form, advVars, stepVars>>

(* the ledger is set up by one session, then two sessions submit *)
NextRace ==
    \/ race = NoRace /\ Tick
    \/ race = NoRace /\ CreateLoan
    \/ race = NoRace /\ Refresh
    \/ \E p \in Racers : RaceBegin(p)
    \/ \E p \in Racers : RaceEntry(p)
    \/ \E p \in Racers : RacePrincipal(p)
    \/ \E p \in Racers : RaceInsert(p)
    \/ \E p \in Racers : RaceStatus(p)

SpecRace == Init /\ [][NextRace]_vars

(* ======================= properties of the ledger ====================== *)
LastPayment(l) == payments[l][Len(payments[l])]

(* the step records a payment on loan l *)
PaidStep(l) ==
    /\ lastOp' = "pay"
    /\ Len(payments'[l]) = Len(payments[l]) + 1

NewPayment(l) == payments'[l][Len(payments'[l])]

(* the rows the glossary calls unpaid interest entries *)
WasUnpaid(l, i) ==
    /\ i \in DOMAIN interest[l]
    /\ interest[l][i].is_paid = 0
    /\ interest[l][i].interest_amount > 0

(* sum of interest_amount over the first n rows with is_paid = false *)
RECURSIVE OwedUpTo(_, _)
OwedUpTo(es, n) ==
    IF n = 0 THEN 0
    ELSE (IF es[n].is_paid = 0 THEN es[n].interest_amount ELSE 0)
            + OwedUpTo(es, n - 1)

OwedInterest(es) == OwedUpTo(es, Len(es))

TotalOwed(l) == loans[l].current_principal + OwedInterest(interest[l])

(* d + k calendar months: the day of d clamped to the target month *)
AddMonths(d, k) ==
    LET months == (YearOf(d) - BaseYear) * 12 + (MonthOf(d) - 1) + k
        y == BaseYear + (months \div 12)
        m == (months % 12) + 1
    IN  MkDate(y, m, Min(DayOf(d), DaysInMonth(y, m)))

(* C1: every Payment row satisfies applied_to_interest +                  *)
(* applied_to_principal + remaining_amount = amount.                      *)
C1_Conservation ==
    \A l \in LoanIds : \A i \in DOMAIN payments[l] :
        payments[l][i].applied_to_interest + payments[l][i].applied_to_principal
            + payments[l][i].remaining_amount = payments[l][i].amount

(* C2: a payment touches the principal only if it settles every interest  *)
(* entry that was unpaid before it; a payment of at most the unpaid       *)
(* interest total leaves current_principal unchanged.                     *)
C2_InterestBeforePrincipal ==
    [][\A l \in LoanIds : PaidStep(l) =>
          /\ (\/ NewPayment(l).applied_to_principal > 0
              \/ loans'[l].current_principal # loans[l].current_principal)
                => \A i \in DOMAIN interest[l] :
                      WasUnpaid(l, i) => interest'[l][i].is_paid = 1
          /\ NewPayment(l).amount <= OwedInterest(interest[l])
                => loans'[l].current_principal = loans[l].current_principal
      ]_vars

(* a payment that settled interest and then reduced the principal *)
C2_Witness ==
    \E l \in DOMAIN loans :
        /\ lastOp = "pay"
        /\ payments[l] # << >>
        /\ LastPayment(l).applied_to_interest > 0
        /\ LastPayment(l).applied_to_principal > 0
        /\ loans[l].current_principal < loans[l].original_principal
        /\ loans[l].current_principal > 0

(* C3: a payment changes an unpaid entry only if it settles every unpaid  *)
(* entry with an earlier due date; with exactly two unpaid entries        *)
(* D1 < D2 of amounts A1, A2, a payment of A1 + A2/2 marks D1 paid,       *)
(* leaves D2 unpaid with interest_amount = A2/2 and puts 0 on principal.  *)
C3_OldestFirst ==
    [][\A l \in LoanIds : PaidStep(l) =>
          /\ \A i \in DOMAIN interest[l] :
                (WasUnpaid(l, i) /\ interest'[l][i] # interest[l][i]) =>
                    \A j \in DOMAIN interest[l] :
                        (WasUnpaid(l, j)
                         /\ interest[l][j].due_date < interest[l][i].due_date)
                            => interest'[l][j].is_paid = 1
          /\ \A i, j \in DOMAIN interest[l] :
                (/\ {k \in DOMAIN interest[l] : WasUnpaid(l, k)} = {i, j}
                 /\ interest[l][i].due_date < interest[l][j].due_date
                 /\ 2 * NewPayment(l).amount =
                       2 * interest[l][i].interest_amount
                         + interest[l][j].interest_amount)
                    => /\ interest'[l][i].is_paid = 1
                       /\ interest'[l][j].is_paid = 0
                       /\ 2 * interest'[l][j].interest_amount =
                             interest[l][j].interest_amount
                       /\ NewPayment(l).applied_to_principal = 0
                       /\ loans'[l].current_principal = loans[l].current_principal
      ]_vars

(* after a payment of A1 + A2/2: D1 paid, D2 half paid *)
C3_Witness ==
    \E l \in DOMAIN loans : \E i, j \in DOMAIN interest[l] :
        /\ lastOp = "pay"
        /\ payments[l] # << >>
        /\ interest[l][i].due_date < interest[l][j].due_date
        /\ interest[l][i].is_paid = 1
        /\ interest[l][j].is_paid = 0
        /\ 2 * interest[l][j].interest_amount =
              calculate_interest(interest[l][j].principal_at_time)
        /\ 2 * LastPayment(l).amount =
              2 * interest[l][i].interest_amount
                + calculate_interest(interest[l][j].principal_at_time)
        /\ LastPayment(l).applied_to_principal = 0

(* C4: every loan has current_principal >= 0. *)
C4_PrincipalFloor ==
    \A l \in DOMAIN loans : loans[l].current_principal >= 0

(* a payment larger than everything owed has been applied *)
C4_Witness ==
    \E l \in DOMAIN loans :
        /\ lastOp = "pay"
        /\ payments[l] # << >>
        /\ loans[l].current_principal = 0
        /\ LastPayment(l).applied_to_principal > loans[l].original_principal

(* C5: after update_loan_statuses the stored status is Paid when total    *)
(* owed <= 0, Overdue when total owed > 0 and today > current_due_date,   *)
(* Partial when total owed > 0 and today <= current_due_date.             *)
C5_StatusAfterRefresh ==
    lastOp \in {"refresh", "create", "edit"} =>
        \A l \in DOMAIN loans :
            loans[l].status =
                IF TotalOwed(l) <= 0 THEN "Paid"
                ELSE IF today > loans[l].current_due_date THEN "Overdue"
                ELSE "Partial"

(* a refresh that accrued a missed month and one that found a paid loan *)
C5_Witness ==
    /\ lastOp = "refresh"
    /\ \E l \in DOMAIN loans :
          /\ loans[l].status = "Partial"
          /\ loans[l].current_due_date > loans[l].original_due_date
          /\ Len(interest[l]) >= 2

(* C6: a loan created with due date T and never paid or edited has stored *)
(* status Overdue after a refresh once the clock is 2 months past T.      *)
C6_OverdueAfterRefresh ==
    \A l \in DOMAIN loans :
        (/\ lastOp = "refresh"
         /\ edits = 0
         /\ payments[l] = << >>
         /\ today >= AddMonths(loans[l].original_due_date, 2))
            => loans[l].status = "Overdue"

C8_AccrualPostcondition ==
    [][lastOp' = "refresh" =>
          \A l \in DOMAIN loans :
              (loans[l].status # "Paid" /\ loans[l].current_due_date < today) =>
                 LET d0 == loans[l].current_due_date
                     ks == 0..(12 * LastMonth)
                 IN  /\ \A k \in ks : AddMonths(d0, k) < today =>
                            \E i \in DOMAIN interest'[l] :
                                interest'[l][i].due_date = AddMonths(d0, k)
                     /\ \A i \in (DOMAIN interest'[l]) \ (DOMAIN interest[l]) :
                            /\ interest'[l][i].interest_amount =
                                 calculate_interest(loans[l].current_principal)
                            /\ interest'[l][i].principal_at_time =
                                 loans[l].current_principal
                     /\ \E k \in ks :
                            /\ loans'[l].current_due_date = AddMonths(d0, k)
                            /\ AddMonths(d0, k) >= today
                            /\ \A j \in 0..(k - 1) : AddMonths(d0, j) < today
      ]_vars

(* C9: a loan has at most one InterestEntry per due_date. *)
C9_UniqueDueDate ==
    \A l \in LoanIds : \A i, j \in DOMAIN interest[l] :
        interest[l][i].due_date = interest[l][j].due_date => i = j

(* an edit moved the due date onto a month that accrual had already charged *)
C9_Witness ==
    \E l \in DOMAIN loans :
        /\ lastOp = "edit"
        /\ Len(interest[l]) >= 2
        /\ \E i \in DOMAIN interest[l] :
              /\ i < Len(interest[l])
              /\ interest[l][i].due_date = loans[l].original_due_date
              /\ interest[l][i].principal_at_time = loans[l].original_principal

(* C10: successive one-month advances of a due date on the 29th, 30th or  *)
(* 31st give the original day clamped to each month, and the original day *)
(* again after 12 advances.                                               *)
C10_NoDrift ==
    DayOf(advStart) \in {29, 30, 31} =>
        /\ DayOf(advDate) =
              Min(DayOf(advStart), DaysInMonth(YearOf(advDate), MonthOf(advDate)))
        /\ advCount = 12 => DayOf(advDate) = DayOf(advStart)

(* C11: the stored status of every loan is Partial, Overdue or Paid in     *)
(* every reachable state, the state right after a payment included.       *)
C11_StatusEnum ==
    \A l \in DOMAIN loans : loans[l].status \in {"Partial", "Overdue", "Paid"}

(* C12: every Payment row has remaining_amount = 0, whether the payment   *)
(* stopped at the interest, reached the principal or exceeded the debt.   *)
C12_NothingRemains ==
    [][\A l \in LoanIds : PaidStep(l) => NewPayment(l).remaining_amount = 0]_vars

(* C13: a payment during which a storage call fails reports the error and *)
(* leaves the ledger as it was: no entry marked paid or reduced, the      *)
(* principal and the status unchanged, no Payment row.                    *)
C13_AllOrNothing ==
    [][lastOp' = "pay_failed" =>
          /\ loans' = loans
          /\ interest' = interest
          /\ payments' = payments
      ]_vars

C15_NoPaidWithBalance ==
    lastOp \in {"refresh", "refresh_readfail"} =>
        \A l \in DOMAIN loans :
            loans[l].status = "Paid" => TotalOwed(l) <= 0

(* C16: after an accrual pass that was interrupted before the loan's new  *)
(* current_due_date was stored, a refresh on the same day ends with the   *)
(* interest entries, the current_due_date and the status that one         *)
(* uninterrupted refresh would have given.                                *)
C16_RetrySafe ==
    [][lastOp' = "refresh_interrupted" =>
          update_loan_statuses(loans', interest', today') =
              update_loan_statuses(loans, interest, today)
      ]_vars

(* an interrupted pass inserted the row of a missed month and left the   *)
(* loan's due date where it was                                          *)
C16_Witness ==
    /\ lastOp = "refresh_interrupted"
    /\ \E l \in DOMAIN loans :
          /\ loans[l].status = "Overdue"
          /\ today > get_next_due_date(loans[l].current_due_date)
          /\ interest[l][Len(interest[l])].due_date =
                get_next_due_date(loans[l].current_due_date)
          /\ interest[l][Len(interest[l])].principal_at_time =
                loans[l].current_principal

(* the loan owes nothing: current_principal and unpaid interest are 0 *)
PaidOff(L, I, l) == L[l].current_principal = 0 /\ OwedInterest(I[l]) = 0

(* C17: update_loan_statuses, run by a page load or at the end of an      *)
(* edit, creates no InterestEntry for a loan whose current_principal and  *)
(* unpaid interest are both 0 and does not move its current_due_date.     *)
C17_NoAccrualWhenPaidOff ==
    [][/\ lastOp' = "refresh" =>
            \A l \in DOMAIN loans : PaidOff(loans, interest, l) =>
                /\ interest'[l] = interest[l]
                /\ loans'[l].current_due_date = loans[l].current_due_date
       /\ lastOp' = "edit" =>
            \A e \in DOMAIN loans, p \in EditPrincipals, due \in DueDates :
                LET w == update_loan_writes(loans, interest, e, p, due)
                    r == update_loan_statuses(w.loans, w.interest, today)
                IN  (loans' = r.loans /\ interest' = r.interest) =>
                       \A l \in DOMAIN loans : PaidOff(w.loans, w.interest, l) =>
                           /\ interest'[l] = w.interest[l]
                           /\ loans'[l].current_due_date =
                                 w.loans[l].current_due_date
      ]_vars

(* the loan the last "Create loan" inserted *)
Created == nextId - 1

(* a is p x rate rounded to the nearest cent *)
IsInterestOf(a, p) ==
    /\ 2 * (100 * a - p * RatePercent) <= 100
    /\ 2 * (p * RatePercent - 100 * a) <= 100

(* C18: a loan created with principal > 0 and a due date not before today *)
(* has current_principal = original_principal = principal,                *)
(* current_due_date = original_due_date = due date, status Partial, and   *)
(* exactly one InterestEntry: for the due date, unpaid, with interest     *)
(* round(principal x rate, 2) and principal_at_time = principal.          *)
C18_CreateLoan ==
    (lastOp = "create" /\ loans[Created].original_due_date >= today) =>
        /\ loans[Created].original_principal \in Principals
        /\ loans[Created].current_principal = loans[Created].original_principal
        /\ loans[Created].original_due_date \in DueDates
        /\ loans[Created].current_due_date = loans[Created].original_due_date
        /\ loans[Created].status = "Partial"
        /\ Len(interest[Created]) = 1
        /\ interest[Created][1].due_date = loans[Created].original_due_date
        /\ interest[Created][1].is_paid = 0
        /\ IsInterestOf(interest[Created][1].interest_amount,
                        loans[Created].original_principal)
        /\ interest[Created][1].principal_at_time =
              loans[Created].original_principal

(* a loan was created on the day it falls due *)
C18_Witness ==
    /\ lastOp = "create"
    /\ loans[Created].original_due_date = today
    /\ loans[Created].status = "Partial"
    /\ Len(interest[Created]) = 1

(* C19: after an edit to (new_principal, new_due_date) the loan has        *)
(* current_principal = original_principal = new_principal and             *)
(* original_due_date = new_due_date, the InterestEntry for new_due_date   *)
(* has interest round(new_principal x rate, 2) and is unpaid, so that it  *)
(* counts in the unpaid interest, and the stored status is the resolver's *)
(* result for the new state.                                              *)
C19_EditResets ==
    [][lastOp' = "edit" =>
          \A e \in DOMAIN loans, p \in EditPrincipals, due \in DueDates :
              LET r == update_loan(loans, interest, e, p, due, today)
              IN  (loans' = r.loans /\ interest' = r.interest) =>
                     /\ loans'[e].current_principal = p
                     /\ loans'[e].original_principal = p
                     /\ loans'[e].original_due_date = due
                     /\ \E i \in DOMAIN interest'[e] :
                           /\ interest'[e][i].due_date = due
                           /\ IsInterestOf(interest'[e][i].interest_amount, p)
                           /\ interest'[e][i].is_paid = 0
                     /\ loans'[e].status =
                           IF p + OwedInterest(interest'[e]) <= 0 THEN "Paid"
                           ELSE IF today > loans'[e].current_due_date THEN "Overdue"
                           ELSE "Partial"
      ]_vars

(* no Payment or InterestEntry row of a loan that does not exist *)
NoOrphans ==
    \A l \in LoanIds \ DOMAIN loans :
        interest[l] = << >> /\ payments[l] = << >>

(* the loan a delete is working on during this step *)
Deleted == IF deleting.calls > 0 THEN deleting.loan ELSE deleting'.loan

(* C20: a delete removes the loan's Payment and InterestEntry rows before *)
(* the Loan row: no state, the states between its storage calls included, *)
(* holds a child row of a loan that does not exist; when it has finished  *)
(* no row refers to the loan; no row of another loan changes.             *)
C20_DeleteFrame ==
    [][/\ NoOrphans'
       /\ lastOp' \in {"deleting", "delete"} =>
            /\ \A l \in LoanIds \ {Deleted} :
                  /\ interest'[l] = interest[l]
                  /\ payments'[l] = payments[l]
                  /\ l \in DOMAIN loans =>
                        (l \in DOMAIN loans' /\ loans'[l] = loans[l])
            /\ lastOp' = "delete" =>
                  /\ Deleted \notin DOMAIN loans'
                  /\ interest'[Deleted] = << >>
                  /\ payments'[Deleted] = << >>
      ]_vars

(* a loan with interest and payment rows has been deleted next to another *)
(* loan that has rows of both kinds                                       *)
C20_Witness ==
    /\ lastOp = "delete"
    /\ \E l \in DOMAIN loans :
          /\ Len(interest[l]) >= 2
          /\ payments[l] # << >>
    /\ \E d \in LoanIds \ DOMAIN loans : d < nextId

(* C21: a step taken in the caller's session leaves every Loan,           *)
(* InterestEntry and Payment row of another owner as it was, and a loan   *)
(* row it inserts carries the caller's owner key.                         *)
C21_OwnerIsolation ==
    [][/\ \A l \in DOMAIN loans : owner[l] # caller =>
             /\ l \in DOMAIN loans'
             /\ loans'[l] = loans[l]
             /\ interest'[l] = interest[l]
             /\ payments'[l] = payments[l]
       /\ \A l \in (DOMAIN loans') \ (DOMAIN loans) : owner'[l] = caller
      ]_vars

(* the ledger after the two submitted payments, a first and then b, each  *)
(* run to its end before the next                                         *)
SerialOrder(a, b) ==
    LET first == process_payment(race.base.loans, race.base.interest,
                                 race.base.payments, race.call[a].loan,
                                 race.call[a].amount, today)
        second == process_payment(first.loans, first.interest, first.payments,
                                  race.call[b].loan, race.call[b].amount, today)
    IN  second

(* C22: when two payments whose storage calls interleave have both        *)
(* finished, the ledger is the one that one of the two serial orders      *)
(* gives.                                                                 *)
C22_RacingPayments ==
    (\A p \in Racers : race.call[p].pc = "done") =>
        [loans |-> loans, interest |-> interest, payments |-> payments]
            \in {SerialOrder(1, 2), SerialOrder(2, 1)}

(* C23: a payment stores status Paid exactly when the total owed after    *)
(* its allocation is <= 0; a payment equal to the total owed leaves no    *)
(* unpaid interest entry and principal 0, records the principal before    *)
(* the payment as applied_to_principal and stores status Paid.            *)
C23_FullSettlement ==
    [][\A l \in DOMAIN loans : PaidStep(l) =>
          /\ (loans'[l].status = "Paid") <=>
                (loans'[l].current_principal + UnpaidInterest(interest'[l]) <= 0)
          /\ NewPayment(l).amount = calculate_total_owed(loans, interest, l) =>
                /\ UnpaidIdx(interest'[l]) = {}
                /\ loans'[l].current_principal = 0
                /\ NewPayment(l).applied_to_principal = loans[l].current_principal
                /\ loans'[l].status = "Paid"
      ]_vars

(* 100.00 of the 200.00 interest was paid, then the 600.00 still owed *)
C23_Witness ==
    \E l \in DOMAIN loans :
        /\ lastOp = "pay"
        /\ edits = 0
        /\ Len(payments[l]) = 2
        /\ payments[l][1].amount = 10000
        /\ LastPayment(l).amount = 60000
        /\ LastPayment(l).applied_to_interest = 10000
        /\ LastPayment(l).applied_to_principal = loans[l].original_principal
        /\ loans[l].current_principal = 0
        /\ loans[l].status = "Paid"

(* C24: a payment of amount a lowers the total owed by exactly a when a   *)
(* is at most the total owed before it, and to exactly 0 when a is more.  *)
C24_OwedLoweredByAmount ==
    [][\A l \in DOMAIN loans : PaidStep(l) =>
          LET a == NewPayment(l).amount
              before == calculate_total_owed(loans, interest, l)
              after == calculate_total_owed(loans', interest', l)
          IN  /\ a > 0
              /\ a <= before => after = before - a
              /\ a > before => after = 0
      ]_vars

(* 300.00 paid of 700.00, then 600.00 paid against the 400.00 left *)
C24_Witness ==
    \E l \in DOMAIN loans :
        /\ lastOp = "pay"
        /\ edits = 0
        /\ Len(interest[l]) = 1
        /\ Len(payments[l]) = 2
        /\ payments[l][1].amount = 30000
        /\ payments[l][1].applied_to_principal = 10000
        /\ LastPayment(l).amount = 60000
        /\ calculate_total_owed(loans, interest, l) = 0

(* C25: a submitted payment whose payment date is on or after the loan's  *)
(* current due date and whose amount is below the loan's unpaid interest  *)
(* is refused: no Payment row is inserted and no Loan or InterestEntry    *)
(* field changes.                                                         *)
C25_MinimumPayment ==
    [][lastOp' \in {"pay", "rejected"} =>
          LET f == form'
          IN  (/\ f.loan \in DOMAIN loans
               /\ f.pay_date >= loans[f.loan].current_due_date
               /\ f.amount < UnpaidInterest(interest[f.loan])) =>
                  /\ lastOp' = "rejected"
                  /\ payments' = payments
                  /\ loans' = loans
                  /\ interest' = interest
      ]_vars

(* 100.00 was offered on the due date against 200.00 of unpaid interest *)
C25_Witness ==
    /\ lastOp = "rejected"
    /\ form.loan \in DOMAIN loans
    /\ form.amount > 0
    /\ form.pay_date = loans[form.loan].current_due_date
    /\ form.amount < UnpaidInterest(interest[form.loan])

(* C26: the principal_at_time of an interest entry never changes once the *)
(* entry exists, whatever operation runs on its loan.                     *)
C26_SnapshotKept ==
    [][\A l \in (DOMAIN loans) \cap (DOMAIN loans') :
          \A i \in (DOMAIN interest[l]) \cap (DOMAIN interest'[l]) :
              interest'[l][i].principal_at_time = interest[l][i].principal_at_time
      ]_vars

(* C27: in every reachable state the due dates of a loan's interest       *)
(* entries, in the order the entries were created, are strictly           *)
(* increasing and each is one calendar month after the one before it.     *)
C27_DueDatesMonthly ==
    \A l \in DOMAIN loans :
        \A i \in 1..(Len(interest[l]) - 1) :
            /\ interest[l][i].due_date < interest[l][i + 1].due_date
            /\ interest[l][i + 1].due_date = AddMonths(interest[l][i].due_date, 1)

(* C28: when update_loan_statuses has run (a page load, or the end of a   *)
(* create or an edit), every loan whose stored status was not Paid when   *)
(* the pass started has current_due_date >= today, and so is not stored   *)
(* as Overdue by the status resolution that follows the accrual.          *)
C28_DueDateCaughtUp ==
    [][lastOp' \in {"refresh", "create", "edit"} =>
          \A l \in (DOMAIN loans) \cap (DOMAIN loans') :
              loans[l].status # "Paid" =>
                  /\ loans'[l].current_due_date >= today'
                  /\ loans'[l].status # "Overdue"
      ]_vars

(* a page load two months after the due date: the entry of the missed     *)
(* month was added and the due date now is today                          *)
C28_Witness ==
    \E l \in DOMAIN loans :
        /\ lastOp = "refresh"
        /\ edits = 0
        /\ Len(interest[l]) = 2
        /\ loans[l].current_due_date = AddMonths(loans[l].original_due_date, 2)
        /\ loans[l].current_due_date = today
        /\ loans[l].status = "Partial"

(* sum of applied_to_principal over the first n payment rows *)
RECURSIVE AppliedToPrincipalUpTo(_, _)
AppliedToPrincipalUpTo(ps, n) ==
    IF n = 0 THEN 0
    ELSE ps[n].applied_to_principal + AppliedToPrincipalUpTo(ps, n - 1)

(* C29: while no loan has been edited, original_principal minus           *)
(* current_principal of each loan is the sum of applied_to_principal over *)
(* its payment rows.                                                      *)
C29_PrincipalReconciles ==
    edits = 0 =>
        \A l \in DOMAIN loans :
            loans[l].original_principal - loans[l].current_principal
                = AppliedToPrincipalUpTo(payments[l], Len(payments[l]))

(* C30: the accrual pass of a page load leaves each loan's                *)
(* current_principal, original_principal and original_due_date, every     *)
(* payment row and every interest entry that exists unchanged; it only    *)
(* appends interest entries and writes current_due_date and status, and   *)
(* that only for loans whose stored status is not Paid.  The status pass  *)
(* that follows it writes nothing but status.                             *)
C30_AccrualFrame ==
    [][lastOp' = "refresh" =>
          LET a == check_and_add_overdue_interest(loans, interest, today)
          IN  /\ DOMAIN a.loans = DOMAIN loans
              /\ \A l \in DOMAIN loans :
                   /\ a.loans[l].current_principal = loans[l].current_principal
                   /\ a.loans[l].original_principal = loans[l].original_principal
                   /\ a.loans[l].original_due_date = loans[l].original_due_date
                   /\ Len(a.interest[l]) >= Len(interest[l])
                   /\ \A i \in DOMAIN interest[l] :
                        a.interest[l][i] = interest[l][i]
                   /\ loans[l].status = "Paid" =>
                        /\ a.loans[l] = loans[l]
                        /\ a.interest[l] = interest[l]
              /\ payments' = payments
              /\ interest' = a.interest
              /\ DOMAIN loans' = DOMAIN loans
              /\ \A l \in DOMAIN loans :
                   [loans'[l] EXCEPT !.status = a.loans[l].status] = a.loans[l]
      ]_vars

(* a page load after a payment and a missed due date: an entry was added  *)
(* and the due date advanced, the payment row and the first entry stayed  *)
C30_Witness ==
    \E l \in DOMAIN loans :
        /\ lastOp = "refresh"
        /\ Len(payments[l]) >= 1
        /\ Len(interest[l]) >= 2
        /\ interest[l][1].interest_amount < calculate_interest(interest[l][1].principal_at_time)
        /\ loans[l].current_due_date > loans[l].original_due_date

====
